---- MODULE Spec2Model ----
(***************************************************************************)
(* The Solidity lexer (src/lexer/lexer.go), the token-printing main loop   *)
(* and the recursive-descent parser (src/main.go) as a state machine.      *)
(*                                                                         *)
(* A source text is a sequence of bytes, each byte a one-character string. *)
(* Offsets are zero-based as in Go, so the Go slice input[a:b] is          *)
(* SubSeq(input, a + 1, b).  The lexer goroutine and its consumer only     *)
(* meet at the channel l.tokens: a lexer action is the local computation   *)
(* of one state-function step up to its channel send, the send itself is a *)
(* separate action that needs room in the buffer.                          *)
(***************************************************************************)
EXTENDS Integers, Sequences, FiniteSets, TLC

VARIABLES
    input,      \* lexer.input
    start,      \* lexer.start
    pos,        \* lexer.pos
    width,      \* lexer.width
    state,      \* the stateFn that run() is executing, "nil" after the loop, "exited" after close
    sending,    \* the token a blocked `l.tokens <- ...` is holding, or NoTkn
    sendVia,    \* which function is sending: "emit", "errorf" or "none"
    after,      \* the stateFn that runs once the pending send completes
    tokens,     \* lexer.tokens: the buffered channel's content
    closed,     \* whether close(l.tokens) has run
    emitted,    \* history: every token pushed on the channel, in order
    delivered,  \* history: every token a NextToken call took from the channel, in order
    mpc,        \* main(): "loop" while pulling, "done" after the break
    ppc,        \* Parser: the nextToken call it is about to make, or "idle"/"returned"
    currTkn,    \* Parser.currTkn
    peekTkn,    \* Parser.peekTkn
    errors,     \* Parser.errors
    decls,      \* file.Declarations of the ParseFile call
    decl,       \* the declaration under construction
    zeroTyp,    \* the TokenType whose numeric value is 0 (Type of a zero-value Token)
    zeroPulls   \* history: the number of receives on the closed, empty channel, modulo 2

lexvars == <<input, start, pos, width, state, sending, sendVia, after, tokens, closed, emitted>>
parservars == <<ppc, currTkn, peekTkn, errors, decls, decl>>
vars == <<input, start, pos, width, state, sending, sendVia, after, tokens, closed,
          emitted, delivered, mpc, ppc, currTkn, peekTkn, errors, decls, decl, zeroTyp,
          zeroPulls>>

(***************************************************************************)
(* Bounds                                                                  *)
(***************************************************************************)
\* longest source over the general alphabet
MaxLen == 3
\* longest source made of operator characters only
MaxOpLen == 4
\* longest source made of number/identifier characters only
MaxNumLen == 3
\* most phrases in a parser source
MaxPhrases == 3

(***************************************************************************)
(* Runes and bytes                                                         *)
(***************************************************************************)
\* const eof = 0: the rune readChar returns at the end of the input; the
\* byte 0 of a source decodes to the same rune.
eof == "NUL"

\* A two-byte UTF-8 sequence (C3 A9) and the rune it decodes to; a lone lead
\* or continuation byte decodes to utf8.RuneError with width 1.
Utf8Lead == "C3"
Utf8Cont == "A9"

DecodeRuneInString(in, p) ==
    IF in[p + 1] = Utf8Lead /\ p + 2 <= Len(in) /\ in[p + 2] = Utf8Cont
    THEN [r |-> "e-acute", w |-> 2]
    ELSE IF in[p + 1] \in {Utf8Lead, Utf8Cont}
    THEN [r |-> "RuneError", w |-> 1]
    ELSE [r |-> in[p + 1], w |-> 1]

\* the bytes fmt's %c writes for a rune
RuneBytes(r) ==
    IF r = "e-acute" THEN <<Utf8Lead, Utf8Cont>>
    ELSE IF r = "RuneError" THEN <<"EF", "BF", "BD">>
    ELSE <<r>>

Digits == {"0", "1", "2", "3", "4", "5", "6", "7", "8", "9"}
HexDigits == Digits \cup {"a", "b", "c", "d", "e", "f", "A", "B", "C", "D", "E", "F"}
LowerLetters == {"a", "b", "c", "d", "e", "f", "g", "h", "i", "j", "k", "l", "m",
                 "n", "o", "p", "q", "r", "s", "t", "u", "v", "w", "x", "y", "z"}
UpperLetters == {"A", "B", "C", "D", "E", "F", "G", "H", "I", "J", "K", "L", "M",
                 "N", "O", "P", "Q", "R", "S", "T", "U", "V", "W", "X", "Y", "Z"}

isDigit(ch) == ch \in Digits
isLetter(ch) == ch \in LowerLetters \/ ch \in UpperLetters \/ ch = "_"
isWhitespace(ch) == ch \in {" ", "\t", "\n", "\r"}

(***************************************************************************)
(* Tokens                                                                  *)
(***************************************************************************)
NoTkn == [Type |-> "none", Literal |-> <<>>, Pos |-> 0]

\* the zero value of token.Token, which a receive on the closed channel yields
ZeroToken(zt) == [Type |-> zt, Literal |-> <<>>, Pos |-> 0]

\* a nil AST node: the nil interface value of ast.Declaration
Nil == [node |-> "nil"]

\* the nil pointer of type *ast.<typ>, which parseVariableDeclaration and
\* parseFunctionDeclaration return on a failed expectation; returned by
\* parseDeclaration as an ast.Declaration it is an interface value that holds
\* a nil pointer, and such a value is not equal to nil
NilPtr(typ) == [node |-> "nil", ptr |-> typ]

IsTerminal(t) == t.Type \in {"EOF", "ILLEGAL"}

\* token.LookupIdent: the keyword table, exact and case-sensitive
Keywords ==
    { [lit |-> <<"C","o","n","t","r","a","c","t">>, typ |-> "CONTRACT"],
      [lit |-> <<"L","i","b","r","a","r","y">>, typ |-> "LIBRARY"],
      [lit |-> <<"u","i","n","t","2","5","6">>, typ |-> "UINT_256"],
      [lit |-> <<"a","d","d","r","e","s","s">>, typ |-> "ADDRESS"],
      [lit |-> <<"b","o","o","l">>, typ |-> "BOOL"],
      [lit |-> <<"m","a","p","p","i","n","g">>, typ |-> "MAPPING"],
      [lit |-> <<"f","u","n","c","t","i","o","n">>, typ |-> "FUNCTION"],
      [lit |-> <<"p","u","b","l","i","c">>, typ |-> "PUBLIC"],
      [lit |-> <<"c","o","n","s","t","a","n","t">>, typ |-> "CONSTANT"] }

LookupIdent(lit) ==
    IF \E k \in Keywords : k.lit = lit
    THEN (CHOOSE k \in Keywords : k.lit = lit).typ
    ELSE "IDENTIFIER"

(***************************************************************************)
(* The scanner's primitives.  l is the record of the lexer's start, pos    *)
(* and width; in is the input.  With(v, Body) is Body(v) with v evaluated  *)
(* once, as a Go statement evaluates the value it assigns.                 *)
(***************************************************************************)
With(v, Body(_)) == CHOOSE r \in {Body(x) : x \in {v}} : TRUE

readChar(in, l) ==
    IF l.pos >= Len(in)
    THEN [l |-> [l EXCEPT !.width = 0], r |-> eof]
    ELSE With(DecodeRuneInString(in, l.pos), LAMBDA d :
             [l |-> [l EXCEPT !.width = d.w, !.pos = l.pos + d.w], r |-> d.r])

\* mutant: whitespace is backed up over instead of being skipped
ignore_backup(l) == [l EXCEPT !.pos = l.pos - l.width]

ignore(l) == [l EXCEPT !.start = l.pos]

backup(l) == [l EXCEPT !.pos = l.pos - l.width]

\* strings.ContainsRune(valid, r), valid given as the set of its runes
ContainsRune(valid, r) == r \in valid

accept(in, l, valid) ==
    With(readChar(in, l), LAMBDA rc :
        IF ContainsRune(valid, rc.r)
        THEN [l |-> rc.l, ok |-> TRUE]
        ELSE [l |-> backup(rc.l), ok |-> FALSE])

RECURSIVE acceptRun(_, _, _)
acceptRun(in, l, valid) ==
    With(readChar(in, l), LAMBDA rc :
        IF ContainsRune(valid, rc.r)
        THEN acceptRun(in, rc.l, valid)
        ELSE backup(rc.l))

switch2(in, l, tkn0, tkn1) ==
    With(accept(in, l, {"="}), LAMBDA a :
        IF a.ok THEN [l |-> a.l, t |-> tkn1] ELSE [l |-> a.l, t |-> tkn0])

switch3(in, l, tkn0, tkn1, char, tkn2) ==
    With(accept(in, l, {"="}), LAMBDA a :
        IF a.ok THEN [l |-> a.l, t |-> tkn1]
        ELSE With(accept(in, a.l, {char}), LAMBDA b :
                 IF b.ok THEN [l |-> b.l, t |-> tkn2] ELSE [l |-> b.l, t |-> tkn0]))

\* mutant: after the doubled character the helper does not look for '='
switch4_short(in, l, tkn0, tkn1, char, tkn2, tkn3) ==
    With(accept(in, l, {"="}), LAMBDA a :
        IF a.ok THEN [l |-> a.l, t |-> tkn1]
        ELSE With(accept(in, a.l, {char}), LAMBDA b :
                 IF b.ok THEN [l |-> b.l, t |-> tkn2] ELSE [l |-> b.l, t |-> tkn0]))

switch4(in, l, tkn0, tkn1, char, tkn2, tkn3) ==
    With(accept(in, l, {"="}), LAMBDA a :
        IF a.ok THEN [l |-> a.l, t |-> tkn1]
        ELSE With(accept(in, a.l, {char}), LAMBDA b :
                 IF b.ok
                 THEN With(accept(in, b.l, {"="}), LAMBDA c :
                          IF c.ok THEN [l |-> c.l, t |-> tkn3] ELSE [l |-> c.l, t |-> tkn2])
                 ELSE [l |-> b.l, t |-> tkn0]))

\* mutant: the token's position is the scanner's position, not the token's start
emitTkn_atPos(in, l, typ) ==
    [Type |-> typ, Literal |-> SubSeq(in, l.start + 1, l.pos), Pos |-> l.pos]

\* the token emit sends: the slice input[start:pos] at offset start
emitTkn(in, l, typ) ==
    [Type |-> typ, Literal |-> SubSeq(in, l.start + 1, l.pos), Pos |-> l.start]

\* emit, after the send: l.start = l.pos
emitDone(l) == [l EXCEPT !.start = l.pos]

ErrPrefix ==
    <<"U","n","r","e","c","o","g","n","i","s","e","d"," ",
      "c","h","a","r","a","c","t","e","r"," ","i","n"," ",
      "s","o","u","r","c","e"," ","u","n","i","t",":"," ","'">>

\* the token errorf sends: ILLEGAL, the formatted message, at offset start
errorfTkn(l, char) ==
    [Type |-> "ILLEGAL", Literal |-> ErrPrefix \o RuneBytes(char) \o <<"'">>, Pos |-> l.start]

(***************************************************************************)
(* The state functions.  Each returns the lexer record, the token it sends *)
(* (NoTkn when it sends none), the sending function and the stateFn that   *)
(* runs next.                                                              *)
(***************************************************************************)
Emits(in, l, typ, next) ==
    [l |-> l, tok |-> emitTkn(in, l, typ), via |-> "emit", next |-> next]

Goes(l, next) == [l |-> l, tok |-> NoTkn, via |-> "none", next |-> next]

Punctuation ==
    [c \in {";", "{", "}", "(", ")", "[", "]", "."} |->
        CASE c = ";" -> "SEMICOLON" [] c = "{" -> "LBRACE" [] c = "}" -> "RBRACE"
          [] c = "(" -> "LPAREN" [] c = ")" -> "RPAREN" [] c = "[" -> "LBRACKET"
          [] c = "]" -> "RBRACKET" [] c = "." -> "PERIOD"]

\* the token kind of the '>' case (lexer.go:137-146)
greaterThan(in, l) ==
    With(accept(in, l, {"="}), LAMBDA a :
        IF a.ok THEN [l |-> a.l, t |-> "GREATER_THAN_OR_EQUAL"]
        ELSE With(accept(in, a.l, {">"}), LAMBDA b :
                 IF b.ok
                 THEN switch4(in, b.l, "SAR", "ASSIGN_SAR", ">", "SHR", "ASSIGN_SHR")
                 ELSE [l |-> b.l, t |-> "GREATER_THAN"]))

\* the token kind of the '-' case (lexer.go:127-132)
minus(in, l) ==
    With(accept(in, l, {">"}), LAMBDA a :
        IF a.ok THEN [l |-> a.l, t |-> "RIGHT_ARROW"]
        ELSE switch3(in, a.l, "SUB", "ASSIGN_SUB", "-", "DEC"))

\* the operator cases of lexSourceUnit's switch
operator(in, l, char) ==
    CASE char = "!" -> switch2(in, l, "NOT", "NOT_EQUAL")
      [] char = "=" -> switch3(in, l, "ASSIGN", "EQUAL", ">", "DOUBLE_ARROW")
      [] char = "+" -> switch3(in, l, "ADD", "ASSIGN_ADD", "+", "INC")
      [] char = "-" -> minus(in, l)
      [] char = "<" -> switch4(in, l, "LESS_THAN", "LESS_THAN_OR_EQUAL", "<", "SHL", "ASSIGN_SHL")
      [] char = ">" -> greaterThan(in, l)

OperatorStart == {"!", "=", "+", "-", "<", ">"}

\* mutant: the eof case goes round the loop again instead of returning nil
atEOF_continue(in, l) == Emits(in, l, "EOF", "lexSourceUnit")

\* case char == eof: l.emit(token.EOF); return nil
atEOF(in, l) == Emits(in, l, "EOF", "nil")

\* errorf: send the ILLEGAL token, return nil
errorf(l, char) == [l |-> l, tok |-> errorfTkn(l, char), via |-> "errorf", next |-> "nil"]

\* one iteration of lexSourceUnit's for loop, on the rune readChar returned
lexSourceUnitCase(in, l, char) ==
    IF char = eof THEN atEOF(in, l)
    ELSE IF isWhitespace(char) THEN Goes(ignore(l), "lexSourceUnit")
    ELSE IF isLetter(char) THEN Goes(backup(l), "lexIdentifier")
    ELSE IF isDigit(char) THEN Goes(backup(l), "lexNumber")
    ELSE IF char \in DOMAIN Punctuation
    THEN Emits(in, l, Punctuation[char], "lexSourceUnit")
    ELSE IF char \in OperatorStart
    THEN With(operator(in, l, char), LAMBDA o : Emits(in, o.l, o.t, "lexSourceUnit"))
    ELSE errorf(l, char)

\* one iteration of lexSourceUnit's for loop
lexSourceUnit(in, l) ==
    With(readChar(in, l), LAMBDA rc : lexSourceUnitCase(in, rc.l, rc.r))

\* mutant: the run of an identifier ends at a digit
RECURSIVE lexIdentifier_letters(_, _)
lexIdentifier_letters(in, l) ==
    With(readChar(in, l), LAMBDA rc :
        IF isLetter(rc.r)
        THEN lexIdentifier_letters(in, rc.l)
        ELSE With(backup(rc.l), LAMBDA b :
                 Emits(in, b, LookupIdent(SubSeq(in, b.start + 1, b.pos)), "lexSourceUnit")))

\* lexIdentifier: the run of letters and digits, then the emit
RECURSIVE lexIdentifier(_, _)
lexIdentifier(in, l) ==
    With(readChar(in, l), LAMBDA rc :
        IF isLetter(rc.r) \/ isDigit(rc.r)
        THEN lexIdentifier(in, rc.l)
        ELSE With(backup(rc.l), LAMBDA b :
                 Emits(in, b, LookupIdent(SubSeq(in, b.start + 1, b.pos)), "lexSourceUnit")))

\* mutant: the digits of the exponent may be hexadecimal
exponent_hex(in, l) ==
    With(accept(in, l, {"e", "E"}), LAMBDA e :
        IF e.ok
        THEN With(accept(in, e.l, {"+", "-"}), LAMBDA sign : acceptRun(in, sign.l, HexDigits))
        ELSE e.l)

\* lexNumber, lines 190-193: the exponent
exponent(in, l) ==
    With(accept(in, l, {"e", "E"}), LAMBDA e :
        IF e.ok
        THEN With(accept(in, e.l, {"+", "-"}), LAMBDA sign : acceptRun(in, sign.l, Digits))
        ELSE e.l)

\* lexNumber, lines 177-181: l.accept("0") && l.accept("x")
hexPrefix(in, l) ==
    With(accept(in, l, {"0"}), LAMBDA zero :
        IF zero.ok THEN accept(in, zero.l, {"x"}) ELSE zero)

lexNumber(in, l) ==
    With(accept(in, l, {"+", "-"}), LAMBDA sign :
    With(hexPrefix(in, sign.l), LAMBDA hex :
    With(acceptRun(in, hex.l, IF hex.ok THEN HexDigits ELSE Digits), LAMBDA run :
    With(exponent(in, run), LAMBDA l3 :
        Emits(in, l3, IF hex.ok THEN "HEX_NUMBER" ELSE "DECIMAL_NUMBER", "lexSourceUnit")))))

\* state = state(l): one step of the state function st
StateFn(st, in, l) ==
    CASE st = "lexSourceUnit" -> lexSourceUnit(in, l)
      [] st = "lexIdentifier" -> lexIdentifier(in, l)
      [] st = "lexNumber" -> lexNumber(in, l)

\* run() on its own: the tokens the state functions send, in order, from
\* state st on
RECURSIVE Scan(_, _, _, _)
Scan(in, l, st, acc) ==
    IF st = "nil" THEN acc
    ELSE With(StateFn(st, in, l), LAMBDA res :
             IF res.tok = NoTkn THEN Scan(in, res.l, res.next, acc)
             ELSE With(IF res.via = "emit" THEN emitDone(res.l) ELSE res.l, LAMBDA l2 :
                      With(Append(acc, res.tok), LAMBDA acc2 :
                          Scan(in, l2, res.next, acc2))))

\* every token Lex(in) sends before it closes the channel
LexAll(in) == Scan(in, [start |-> 0, pos |-> 0, width |-> 0], "lexSourceUnit", <<>>)

(***************************************************************************)
(* Source texts                                                            *)
(***************************************************************************)
Strs(S, n) == UNION {[1..k -> S] : k \in 0..n}

Alphabet == {" ", ";", "a", "1", "#", "<", eof, Utf8Lead, Utf8Cont}
OpChars == OperatorStart
NumChars == {"0", "1", "x", "e", "-", "f"}

\* identifiers, keywords and numbers, alone or followed by a semicolon
Words ==
    { <<"b","o","o","l">>,
      <<"b","o","o","l","1">>,
      <<"B","o","o","l">>,
      <<"C","o","n","t","r","a","c","t">>,
      <<"C","o","n","t","r","a","c","t","1">>,
      <<"c","o","n","t","r","a","c","t">>,
      <<"a","t","t","a","c","k","e","r","1","3","3","7">>,
      <<"_","a","1">>,
      <<"a","_","b">>,
      <<"5">>,
      <<"0","x","D","E","A","D","B","E","E","F">>,
      <<"1","0","0","0","0","0","0","e","-","3">>,
      <<"0","x","1","e","5">>,
      <<"1","E","+","2">>,
      <<"1","2","a","b">> }

WordInputs == Words \cup {w \o <<";">> : w \in Words}

\* the sources of the lexer's specification
LexInputs ==
    Strs(Alphabet, MaxLen) \cup Strs(OpChars, MaxOpLen) \cup Strs(NumChars, MaxNumLen)
        \cup WordInputs

Phrases ==
    << <<"u","i","n","t","2","5","6"," ","x">>,
       <<";">>,
       <<"f","u","n","c","t","i","o","n"," ","f","(","b","o","o","l"," ","a"," ","u","i","n","t","2","5","6"," ","b",")">>,
       <<"f","u","n","c","t","i","o","n"," ","f","(",")">>,
       <<"a","d","d","r","e","s","s">>,
       <<"#">>,
       <<"y","=","1">> >>

RECURSIVE Join(_)
Join(ps) ==
    IF ps = <<>> THEN <<>>
    ELSE IF Len(ps) = 1 THEN Phrases[ps[1]]
    ELSE Phrases[ps[1]] \o <<" ">> \o Join(Tail(ps))

\* whole sources
Examples ==
    { <<"u","i","n","t","2","5","6"," ","x",";">>,
      <<"u","i","n","t","2","5","6"," ",";">>,
      <<"b","o","o","l"," ","b"," ","="," ","0","x","1","f",";">>,
      <<"f","u","n","c","t","i","o","n"," ","g","(","a","d","d","r","e","s","s"," ","a",")",";">>,
      <<"f","u","n","c","t","i","o","n"," ","d","e","p","o","s","i","t","(","u","i","n","t","2","5","6"," ","a","m","o","u","n","t",")"," ","p","u","b","l","i","c"," ","{"," ","b","a","l","a","n","c","e","s","[","m","s","g",".","s","e","n","d","e","r","]"," ","+","="," ","a","m","o","u","n","t",";"," ","}">> }

\* the sources of the parser's specification: phrases joined by one space,
\* and the whole sources
ParseInputs == {Join(ps) : ps \in Strs(DOMAIN Phrases, MaxPhrases)} \cup Examples

(***************************************************************************)
(* The lexer goroutine                                                     *)
(***************************************************************************)
\* mutant: a buffer of three tokens
ChanCap_three == 2 + 1

\* make(chan token.Token, 2)
ChanCap == 2

L == [start |-> start, pos |-> pos, width |-> width]

\* Lex(input): the lexer's fields and the goroutine about to call run()
LexInit(in) ==
    /\ input = in
    /\ start = 0 /\ pos = 0 /\ width = 0
    /\ state = "lexSourceUnit"
    /\ sending = NoTkn /\ sendVia = "none" /\ after = "none"
    /\ tokens = <<>>
    /\ closed = FALSE
    /\ emitted = <<>>

\* run(): state = state(l), up to the state function's channel send
Step(st) ==
    /\ state = st
    /\ sending = NoTkn
    /\ \E res \in {StateFn(st, input, L)} :
           /\ pos' = res.l.pos
           /\ width' = res.l.width
           /\ start' = res.l.start
           /\ sending' = res.tok
           /\ sendVia' = res.via
           /\ IF res.tok = NoTkn
              THEN state' = res.next /\ after' = "none"
              ELSE state' = st /\ after' = res.next
    /\ UNCHANGED <<input, tokens, closed, emitted>>

LexSourceUnit ==
    /\ Step("lexSourceUnit")
    /\ UNCHANGED <<delivered, mpc, parservars, zeroTyp, zeroPulls>>

LexIdentifier ==
    /\ Step("lexIdentifier")
    /\ UNCHANGED <<delivered, mpc, parservars, zeroTyp, zeroPulls>>

LexNumber ==
    /\ Step("lexNumber")
    /\ UNCHANGED <<delivered, mpc, parservars, zeroTyp, zeroPulls>>

\* l.tokens <- tkn completes: the buffer has room; emit then sets start = pos
Send ==
    /\ sending # NoTkn
    /\ Len(tokens) < ChanCap
    /\ tokens' = Append(tokens, sending)
    /\ emitted' = Append(emitted, sending)
    /\ start' = IF sendVia = "emit" THEN emitDone(L).start ELSE start
    /\ sending' = NoTkn
    /\ sendVia' = "none"
    /\ state' = after
    /\ after' = "none"
    /\ UNCHANGED <<input, pos, width, closed, delivered, mpc, parservars, zeroTyp, zeroPulls>>

\* run(): the loop has ended on a nil state; close(l.tokens)
Close ==
    /\ state = "nil"
    /\ closed' = TRUE
    /\ state' = "exited"
    /\ UNCHANGED <<input, start, pos, width, sending, sendVia, after, tokens, emitted,
                   delivered, mpc, parservars, zeroTyp, zeroPulls>>

Lexer == LexSourceUnit \/ LexIdentifier \/ LexNumber \/ Send \/ Close

(***************************************************************************)
(* NextToken: the receive `<-l.tokens`                                     *)
(***************************************************************************)
\* a receive can complete: a token is buffered, or the channel is closed
CanReceive == tokens # <<>> \/ closed

\* mutant: the receive yields the newest buffered token
Received_newest == IF tokens # <<>> THEN tokens[Len(tokens)] ELSE ZeroToken(zeroTyp)

\* the token the receive yields: the oldest buffered one, else the zero value
Received == IF tokens # <<>> THEN Head(tokens) ELSE ZeroToken(zeroTyp)

\* the buffer after the receive
Rest == IF tokens # <<>> THEN Tail(tokens) ELSE tokens

\* the history of delivered tokens after the receive; the zero values that
\* the closed channel yields without end are not tokens and are not recorded
Delivered == IF tokens # <<>> THEN Append(delivered, Received) ELSE delivered

\* the parity of the receives on the closed, empty channel after the receive
ZeroPulls == IF tokens # <<>> THEN zeroPulls ELSE 1 - zeroPulls

(***************************************************************************)
(* main(): pull and print tokens until EOF or ILLEGAL                      *)
(***************************************************************************)
MainNextToken ==
    /\ mpc = "loop"
    /\ CanReceive
    /\ delivered' = Delivered
    /\ tokens' = Rest
    /\ mpc' = IF IsTerminal(Received) THEN "done" ELSE "loop"
    /\ zeroPulls' = ZeroPulls
    /\ UNCHANGED <<input, start, pos, width, state, sending, sendVia, after, closed,
                   emitted, parservars, zeroTyp>>

ParserIdle ==
    /\ ppc = "idle"
    /\ currTkn = NoTkn /\ peekTkn = NoTkn
    /\ errors = <<>> /\ decls = <<>> /\ decl = Nil

Init ==
    /\ \E in \in LexInputs : LexInit(in)
    /\ delivered = <<>>
    /\ mpc = "loop"
    /\ ParserIdle
    /\ zeroTyp = "ILLEGAL"
    /\ zeroPulls = 0

Next == Lexer \/ MainNextToken

Spec == Init /\ [][Next]_vars

\* the Go scheduler runs every runnable goroutine: the lexer and main
FairSpec == Spec /\ WF_vars(Lexer) /\ WF_vars(MainNextToken)

(***************************************************************************)
(* The parser (src/main.go:37-197).  P is the record of the Parser's       *)
(* fields, the declarations of the file under construction, the            *)
(* declaration under construction and pc, the nextToken call the parser    *)
(* makes next.  Between two nextToken calls the parser runs alone.         *)
(***************************************************************************)
\* mutant: the identifier's position is the end of its token
Identifier_after(tkn) ==
    [node |-> "Identifier", NamePos |-> tkn.Pos + Len(tkn.Literal), Name |-> tkn.Literal]

Identifier(tkn) == [node |-> "Identifier", NamePos |-> tkn.Pos, Name |-> tkn.Literal]

ElementaryType(tkn) ==
    [node |-> "ElementaryType", ValuePos |-> tkn.Pos, Kind |-> tkn, Value |-> tkn.Literal]

\* ast.Identifier / ast.ElementaryType: Start() and End()
NodeStart(x) == IF x.node = "Identifier" THEN x.NamePos ELSE x.ValuePos
NodeEnd(x) ==
    IF x.node = "Identifier" THEN x.NamePos + Len(x.Name) ELSE x.ValuePos + Len(x.Value)

At(p, pc) == [p EXCEPT !.pc = pc]

\* p.currTkn = p.peekTkn; p.peekTkn = p.l.NextToken()
nextToken(p, tkn) == [p EXCEPT !.currTkn = p.peekTkn, !.peekTkn = tkn]

currTknIs(p, t) == p.currTkn.Type = t

peekError(p, t) ==
    [p EXCEPT !.errors = Append(@, [Pos |-> p.peekTkn.Pos,
                                    Expected |-> t,
                                    Got |-> p.peekTkn.Type,
                                    Offset |-> p.peekTkn.Pos])]

\* ParseFile, lines 64-68: append the declaration unless it is the nil
\* interface value, then nextToken
declDone(p, d) ==
    At([p EXCEPT !.decls = IF d = Nil THEN @ ELSE Append(@, d), !.decl = Nil],
       "ParseFile.nextToken")

\* expectPeek(t): on a match the parser goes on to the nextToken call at pc,
\* else it records the error and the function parsing the declaration
\* returns its nil pointer
expectPeek(p, t, pc) ==
    IF p.peekTkn.Type = t
    THEN At(p, pc)
    ELSE declDone(peekError(p, t), NilPtr(p.decl.node))

\* parseVariableDeclaration, lines 168-173: skip to the semicolon
varSemicolon(p) ==
    IF currTknIs(p, "SEMICOLON") THEN declDone(p, p.decl) ELSE At(p, "var.skip")

\* parseVariableDeclaration, lines 148-159
parseVariableDeclaration(p) ==
    expectPeek([p EXCEPT !.decl = [node |-> "VariableDeclaration",
                                   Type |-> ElementaryType(p.currTkn),
                                   Name |-> Nil]],
               "IDENTIFIER", "var.expectPeek")

\* mutant: the declaration is named by the token after the identifier
varName_peek(p) == varSemicolon([p EXCEPT !.decl.Name = Identifier(p.peekTkn)])

\* parseVariableDeclaration, lines 161-173, after expectPeek's nextToken
varName(p) == varSemicolon([p EXCEPT !.decl.Name = Identifier(p.currTkn)])

\* mutant: the declaration is returned without the skip to the semicolon
fnSemicolon_now(p) == declDone(p, p.decl)

\* parseFunctionDeclaration, lines 138-144: skip to the semicolon
fnSemicolon(p) ==
    IF currTknIs(p, "SEMICOLON") THEN declDone(p, p.decl) ELSE At(p, "fn.skip")

\* parseFunctionDeclaration, lines 86-95
parseFunctionDeclaration(p) ==
    expectPeek([p EXCEPT !.decl = [node |-> "FunctionDeclaration",
                                   Name |-> Nil,
                                   Type |-> [Func |-> p.currTkn.Pos, Params |-> Nil]]],
               "IDENTIFIER", "fn.expectName")

\* lines 97-105, after the name's nextToken
fnName(p) ==
    expectPeek([p EXCEPT !.decl.Name = Identifier(p.currTkn)], "LPAREN", "fn.expectLparen")

\* mutant: the list opens at the token after the parenthesis
fnOpening_peek(p) ==
    At([p EXCEPT !.decl.Type.Params =
            [node |-> "ParamList", Opening |-> p.peekTkn.Pos, Closing |-> 0, List |-> <<>>]],
       "fn.afterLparen")

\* lines 107-111, after the parenthesis's nextToken
fnOpening(p) ==
    At([p EXCEPT !.decl.Type.Params =
            [node |-> "ParamList", Opening |-> p.currTkn.Pos, Closing |-> 0, List |-> <<>>]],
       "fn.afterLparen")

\* lines 113-130: the head of the parameter loop
fnParamLoop(p) ==
    IF currTknIs(p, "RPAREN")
    THEN fnSemicolon([p EXCEPT !.decl.Type.Params.Closing = p.currTkn.Pos])
    ELSE expectPeek(p, "IDENTIFIER", "fn.expectParam")

\* lines 119-127, after the parameter name's nextToken
fnParam(p) ==
    At([p EXCEPT !.decl.Type.Params.List =
            Append(@, [node |-> "Param", Name |-> Identifier(p.currTkn)])],
       "fn.paramNext")

\* mutant: a token that starts no declaration is reported
parseDeclaration_report(p) ==
    IF p.currTkn.Type \in {"ADDRESS", "UINT_256", "BOOL"} THEN parseVariableDeclaration(p)
    ELSE IF p.currTkn.Type = "FUNCTION" THEN parseFunctionDeclaration(p)
    ELSE declDone(peekError(p, "FUNCTION"), Nil)

\* parseDeclaration
parseDeclaration(p) ==
    IF p.currTkn.Type \in {"ADDRESS", "UINT_256", "BOOL"} THEN parseVariableDeclaration(p)
    ELSE IF p.currTkn.Type = "FUNCTION" THEN parseFunctionDeclaration(p)
    ELSE declDone(p, Nil)

\* ParseFile, line 63: the head of the loop
parseFileLoop(p) ==
    IF p.currTkn.Type # "EOF" THEN parseDeclaration(p) ELSE At(p, "returned")

\* what the parser does after the nextToken call at pc has returned
Continue(pc, p) ==
    CASE pc = "init.1" -> At(p, "init.2")
      [] pc = "init.2" -> parseFileLoop(p)
      [] pc = "ParseFile.nextToken" -> parseFileLoop(p)
      [] pc = "var.expectPeek" -> varName(p)
      [] pc = "var.skip" -> varSemicolon(p)
      [] pc = "fn.expectName" -> fnName(p)
      [] pc = "fn.expectLparen" -> fnOpening(p)
      [] pc = "fn.afterLparen" -> fnParamLoop(p)
      [] pc = "fn.expectParam" -> fnParam(p)
      [] pc = "fn.paramNext" -> fnParamLoop(p)
      [] pc = "fn.skip" -> fnSemicolon(p)

P == [currTkn |-> currTkn, peekTkn |-> peekTkn, errors |-> errors,
      decls |-> decls, decl |-> decl, pc |-> ppc]

\* the nextToken call at pc: the receive, then the parser's code up to its
\* next nextToken call
ParserNextToken(pc) ==
    /\ CanReceive
    /\ delivered' = Delivered
    /\ tokens' = Rest
    /\ \E q \in {nextToken(P, Received)} : \E p \in {Continue(pc, q)} :
           /\ ppc' = p.pc
           /\ currTkn' = p.currTkn
           /\ peekTkn' = p.peekTkn
           /\ errors' = p.errors
           /\ decls' = p.decls
           /\ decl' = p.decl
    /\ zeroPulls' = ZeroPulls
    /\ UNCHANGED <<input, start, pos, width, state, sending, sendVia, after, closed,
                   emitted, mpc, zeroTyp>>

\* Parser.init: the two nextToken calls that fill currTkn and peekTkn
ParserInit == ppc \in {"init.1", "init.2"} /\ ParserNextToken(ppc)

\* ParseFile, line 68
ParseFileNextToken == ppc = "ParseFile.nextToken" /\ ParserNextToken("ParseFile.nextToken")

\* parseVariableDeclaration, line 157 and line 170
ParseVariableExpect == ppc = "var.expectPeek" /\ ParserNextToken("var.expectPeek")
ParseVariableSkip == ppc = "var.skip" /\ ParserNextToken("var.skip")

\* parseFunctionDeclaration, lines 93, 103, 111, 114, 127 and 140
ParseFunctionName == ppc = "fn.expectName" /\ ParserNextToken("fn.expectName")
ParseFunctionLparen == ppc = "fn.expectLparen" /\ ParserNextToken("fn.expectLparen")
ParseFunctionAfterLparen == ppc = "fn.afterLparen" /\ ParserNextToken("fn.afterLparen")
ParseFunctionParam == ppc = "fn.expectParam" /\ ParserNextToken("fn.expectParam")
ParseFunctionParamNext == ppc = "fn.paramNext" /\ ParserNextToken("fn.paramNext")
ParseFunctionSkip == ppc = "fn.skip" /\ ParserNextToken("fn.skip")

Parser ==
    \/ ParserInit
    \/ ParseFileNextToken
    \/ ParseVariableExpect
    \/ ParseVariableSkip
    \/ ParseFunctionName
    \/ ParseFunctionLparen
    \/ ParseFunctionAfterLparen
    \/ ParseFunctionParam
    \/ ParseFunctionParamNext
    \/ ParseFunctionSkip

\* a Parser on a source: Lex(src) has started the goroutine, the Parser's
\* fields hold their zero values and init is about to pull
ParseInit ==
    /\ \E in \in ParseInputs : LexInit(in)
    /\ delivered = <<>>
    /\ mpc = "none"
    /\ zeroTyp \in {"ILLEGAL", "EOF"}
    /\ zeroPulls = 0
    /\ ppc = "init.1"
    /\ currTkn = ZeroToken(zeroTyp) /\ peekTkn = ZeroToken(zeroTyp)
    /\ errors = <<>> /\ decls = <<>> /\ decl = Nil

ParseNext == Lexer \/ Parser

ParseSpec == ParseInit /\ [][ParseNext]_vars

\* the scheduler runs the lexer goroutine and the parsing goroutine
FairParseSpec == ParseSpec /\ WF_vars(Lexer) /\ WF_vars(Parser)

(***************************************************************************)
(* Properties of the lexer and its consumer                                *)
(***************************************************************************)
Last(s) == s[Len(s)]

\* the tokens the scanner has produced: those pushed and the one emit holds
Produced == Len(emitted) + (IF sending # NoTkn THEN 1 ELSE 0)

\* C1: the tokens pushed on the channel hold at most one terminal token (EOF
\* or ILLEGAL) and only as the last one; once it is pushed the producer has
\* nothing left to do but close the channel; the channel is closed only
\* after a terminal token was pushed, and the producer ends its loop only
\* by pushing one.
C1_OneTerminalThenClose ==
    /\ \A i \in 1..(Len(emitted) - 1) : ~IsTerminal(emitted[i])
    /\ (emitted # <<>> /\ IsTerminal(Last(emitted)))
          => (state \in {"nil", "exited"} /\ sending = NoTkn)
    /\ state \in {"nil", "exited"} => (emitted # <<>> /\ IsTerminal(Last(emitted)))
    /\ closed <=> state = "exited"
    /\ state = "nil" => (ENABLED Close /\ ~ENABLED (LexSourceUnit \/ LexIdentifier \/ LexNumber \/ Send))

\* C1 witness: the channel is closed after three tokens, the last one ILLEGAL
C1_Witness ==
    closed /\ Len(emitted) = 3 /\ Last(emitted).Type = "ILLEGAL"

\* C2: whatever the interleaving, the tokens delivered followed by the tokens
\* still buffered are exactly the tokens pushed, in order, and these are a
\* prefix of the tokens the scanner yields for the source when run alone;
\* when main has pulled the terminal token it has been given all of them.
C2_DeliveredInOrder ==
    /\ emitted = delivered \o tokens
    /\ Len(emitted) <= Len(LexAll(input))
    /\ emitted = SubSeq(LexAll(input), 1, Len(emitted))
    /\ mpc = "done" => delivered = LexAll(input)

\* C2 witness: main has pulled four tokens, the last of them the terminal one
C2_Witness ==
    mpc = "done" /\ Len(delivered) = 4 /\ IsTerminal(Last(delivered))

\* C5: the channel never holds more than 2 tokens; a producer holding a token
\* for a full channel can take no step; the scanner is never more than 3
\* tokens ahead of the consumer.
C5_BoundedLookahead ==
    /\ Len(tokens) <= 2
    /\ (sending # NoTkn /\ Len(tokens) = 2) => ~ENABLED Lexer
    /\ Produced - Len(delivered) <= 3

\* C5 witness: two tokens buffered and a third held by emit, after the
\* consumer has already pulled two
C5_Witness ==
    Len(tokens) = 2 /\ sending # NoTkn /\ Len(delivered) = 2

\* the most tokens a source of the lexer's specification can give
MaxTokens ==
    1 + CHOOSE m \in {MaxLen, MaxOpLen, MaxNumLen} :
            \A k \in {MaxLen, MaxOpLen, MaxNumLen} : k <= m

\* C4: with the lexer goroutine and main scheduled fairly, every NextToken
\* call of main returns a token (the count of delivered tokens grows while
\* main is in its loop), and main is eventually given the terminal token of
\* the source and leaves its loop.
C4_TerminalDelivered ==
    /\ \A n \in 0..MaxTokens :
          (mpc = "loop" /\ Len(delivered) = n) ~> (Len(delivered) > n)
    /\ <>(mpc = "done" /\ delivered # <<>> /\ IsTerminal(Last(delivered)) /\ delivered = emitted)

\* C4 witness: main has left its loop on an ILLEGAL token that followed two
\* other tokens
C4_Witness ==
    mpc = "done" /\ Len(delivered) = 3 /\ Last(delivered).Type = "ILLEGAL"

\* the operators of the language and their kinds
Operators ==
    { [lit |-> <<"!">>, typ |-> "NOT"], [lit |-> <<"!", "=">>, typ |-> "NOT_EQUAL"],
      [lit |-> <<"=">>, typ |-> "ASSIGN"], [lit |-> <<"=", "=">>, typ |-> "EQUAL"],
      [lit |-> <<"=", ">">>, typ |-> "DOUBLE_ARROW"],
      [lit |-> <<"+">>, typ |-> "ADD"], [lit |-> <<"+", "=">>, typ |-> "ASSIGN_ADD"],
      [lit |-> <<"+", "+">>, typ |-> "INC"],
      [lit |-> <<"-">>, typ |-> "SUB"], [lit |-> <<"-", "=">>, typ |-> "ASSIGN_SUB"],
      [lit |-> <<"-", "-">>, typ |-> "DEC"], [lit |-> <<"-", ">">>, typ |-> "RIGHT_ARROW"],
      [lit |-> <<"<">>, typ |-> "LESS_THAN"],
      [lit |-> <<"<", "=">>, typ |-> "LESS_THAN_OR_EQUAL"],
      [lit |-> <<"<", "<">>, typ |-> "SHL"],
      [lit |-> <<"<", "<", "=">>, typ |-> "ASSIGN_SHL"],
      [lit |-> <<">">>, typ |-> "GREATER_THAN"],
      [lit |-> <<">", "=">>, typ |-> "GREATER_THAN_OR_EQUAL"],
      [lit |-> <<">", ">">>, typ |-> "SAR"],
      [lit |-> <<">", ">", "=">>, typ |-> "ASSIGN_SAR"],
      [lit |-> <<">", ">", ">">>, typ |-> "SHR"],
      [lit |-> <<">", ">", ">", "=">>, typ |-> "ASSIGN_SHR"] }

\* lit is the text of the source in at offset p
IsPrefixAt(lit, in, p) ==
    p + Len(lit) <= Len(in) /\ SubSeq(in, p + 1, p + Len(lit)) = lit

\* op is the longest operator that the source in has at offset p
IsLongestOpAt(op, in, p) ==
    /\ IsPrefixAt(op.lit, in, p)
    /\ \A o \in Operators : IsPrefixAt(o.lit, in, p) => Len(o.lit) <= Len(op.lit)

\* C6: a token that starts at an operator character is the longest operator
\* the source has at that offset, with that operator's kind and its whole
\* text as literal; a source that is one operator gives that one token and
\* EOF.
C6_MaximalMunch ==
    /\ \A i \in DOMAIN emitted :
          (emitted[i].Pos < Len(input) /\ input[emitted[i].Pos + 1] \in OperatorStart)
             => \E op \in Operators :
                   /\ IsLongestOpAt(op, input, emitted[i].Pos)
                   /\ emitted[i].Literal = op.lit
                   /\ emitted[i].Type = op.typ
    /\ \A op \in Operators :
          (input = op.lit /\ closed)
             => emitted = << [Type |-> op.typ, Literal |-> op.lit, Pos |-> 0],
                             [Type |-> "EOF", Literal |-> <<>>, Pos |-> Len(op.lit)] >>

\* C6 witness: ">>>=" has been pushed as the one token ASSIGN_SHR and was
\* followed by another operator
C6_Witness ==
    /\ Len(emitted) >= 2
    /\ emitted[1] = [Type |-> "ASSIGN_SHR", Literal |-> <<">", ">", ">", "=">>, Pos |-> 0]

TokEnd(t) == t.Pos + Len(t.Literal)

\* the bytes of the source at offsets a .. b-1 are all whitespace
Blank(a, b) == \A k \in (a + 1)..b : isWhitespace(input[k])

\* C7: when the scan has ended on EOF, every token's literal is the slice of
\* the source at its position, the tokens do not overlap, and the bytes
\* before the first token, between tokens and after the last one are
\* whitespace only.
C7_RoundTrip ==
    (closed /\ Last(emitted).Type = "EOF") =>
        /\ \A i \in DOMAIN emitted : IsPrefixAt(emitted[i].Literal, input, emitted[i].Pos)
        /\ Blank(0, emitted[1].Pos)
        /\ \A i \in 2..Len(emitted) :
              /\ TokEnd(emitted[i - 1]) <= emitted[i].Pos
              /\ Blank(TokEnd(emitted[i - 1]), emitted[i].Pos)
        /\ Blank(TokEnd(Last(emitted)), Len(input))

\* the round trip of C7, for the sources without a zero byte
RoundTripWithoutNul ==
    (\A k \in DOMAIN input : input[k] # eof) => C7_RoundTrip

\* C8: the positions of the tokens pushed never decrease, and every token
\* but the terminal one ends within the source.
C8_PositionsMonotone ==
    /\ \A i \in 2..Len(emitted) : emitted[i - 1].Pos <= emitted[i].Pos
    /\ \A i \in DOMAIN emitted :
          ~IsTerminal(emitted[i]) => TokEnd(emitted[i]) <= Len(input)

\* C8 witness: three tokens, the second of which ends exactly where the
\* source ends
C8_Witness ==
    /\ Len(emitted) = 3
    /\ emitted[2].Pos > 0
    /\ TokEnd(emitted[2]) = Len(input)

\* the bytes lexSourceUnit has a case for: eof, whitespace, letters, digits,
\* punctuation and the operator characters
Recognised(b) ==
    \/ b = eof \/ isWhitespace(b) \/ isLetter(b) \/ isDigit(b)
    \/ b \in DOMAIN Punctuation \/ b \in OperatorStart

\* k is the offset of the first byte of in that lexSourceUnit has no case for
IsFirstUnrecognised(in, k) ==
    /\ k < Len(in)
    /\ ~Recognised(in[k + 1])
    /\ \A j \in 1..k : Recognised(in[j])

Front(s) == SubSeq(s, 1, Len(s) - 1)

\* C9: when the source has a character without a case in the main state, the
\* scan gives the tokens of the prefix before that character (less the
\* prefix's EOF), then one ILLEGAL token at that character's offset whose
\* literal is the message, and nothing else.
C9_LexicalFailure ==
    \A k \in 0..Len(input) :
        (closed /\ IsFirstUnrecognised(input, k)) =>
            /\ Front(emitted) = Front(LexAll(SubSeq(input, 1, k)))
            /\ Last(emitted).Type = "ILLEGAL"
            /\ Last(emitted).Pos = k
            /\ SubSeq(Last(emitted).Literal, 1, Len(ErrPrefix)) = ErrPrefix

\* the lexical failure of C9, for the sources without a zero byte
LexicalFailureWithoutNul ==
    (\A k \in DOMAIN input : input[k] # eof) => C9_LexicalFailure

\* the end of the longest run of bytes of S that the source in has at offset p
RunEnd(in, p, S) ==
    CHOOSE q \in p..Len(in) :
        /\ \A k \in (p + 1)..q : in[k] \in S
        /\ q = Len(in) \/ in[q + 1] \notin S

\* the source in has the byte c at offset p
ByteAt(in, p, c) == p < Len(in) /\ in[p + 1] = c

\* the number literal the language has at offset p of in: the prefix 0x and
\* a run of hex digits, or a run of decimal digits; then an e or E, a sign
\* and a run of decimal digits
NumberAt(in, p) ==
    LET hex == ByteAt(in, p, "0") /\ ByteAt(in, p + 1, "x")
        m == IF hex THEN RunEnd(in, p + 2, HexDigits) ELSE RunEnd(in, p, Digits)
        e == ByteAt(in, m, "e") \/ ByteAt(in, m, "E")
        s == IF ByteAt(in, m + 1, "+") \/ ByteAt(in, m + 1, "-") THEN m + 2 ELSE m + 1
        q == IF e THEN RunEnd(in, s, Digits) ELSE m
    IN  [Type |-> IF hex THEN "HEX_NUMBER" ELSE "DECIMAL_NUMBER",
         Literal |-> SubSeq(in, p + 1, q),
         Pos |-> p]

\* the source in was scanned to its end and gave the one token of kind typ
\* that spans it, then EOF
OneToken(in, typ) ==
    (input = in /\ closed)
        => emitted = << [Type |-> typ, Literal |-> in, Pos |-> 0],
                        [Type |-> "EOF", Literal |-> <<>>, Pos |-> Len(in)] >>

\* C14: a token that starts at a digit is the number literal the source has
\* at that offset: HEX_NUMBER exactly when it begins with 0x, spanning the
\* prefix and the longest run of hex digits, otherwise DECIMAL_NUMBER
\* spanning the longest run of decimal digits, in both cases with the
\* exponent (e or E, an optional sign, a run of decimal digits) that follows;
\* number tokens start at digits only; "5", "0xDEADBEEF" and "1000000e-3"
\* are one token each.
C14_NumericLiterals ==
    /\ \A i \in DOMAIN emitted :
          /\ (emitted[i].Pos < Len(input) /\ isDigit(input[emitted[i].Pos + 1]))
                => emitted[i] = NumberAt(input, emitted[i].Pos)
          /\ emitted[i].Type \in {"HEX_NUMBER", "DECIMAL_NUMBER"}
                => (emitted[i].Pos < Len(input) /\ isDigit(input[emitted[i].Pos + 1]))
          /\ emitted[i].Type = "HEX_NUMBER"
                <=> (Len(emitted[i].Literal) >= 2
                       /\ SubSeq(emitted[i].Literal, 1, 2) = <<"0", "x">>)
    /\ OneToken(<<"5">>, "DECIMAL_NUMBER")
    /\ OneToken(<<"0", "x", "D", "E", "A", "D", "B", "E", "E", "F">>, "HEX_NUMBER")
    /\ OneToken(<<"1", "0", "0", "0", "0", "0", "0", "e", "-", "3">>, "DECIMAL_NUMBER")

\* C14 witness: "1000000e-3" has been scanned to its end as one token
C14_Witness ==
    /\ closed
    /\ Len(emitted) = 2
    /\ emitted[1].Type = "DECIMAL_NUMBER"
    /\ emitted[1].Literal = <<"1", "0", "0", "0", "0", "0", "0", "e", "-", "3">>

\* C15: a token that starts at a letter or an underscore spans the longest
\* run of letters, underscores and digits at that offset; its kind is the
\* keyword's kind when the run is an entry of the keyword table, and
\* IDENTIFIER when it is none; identifier and keyword tokens start at a letter
\* or underscore only; "Contract" is the keyword, "Contract1" and
\* "attacker1337" are one IDENTIFIER each.
C15_IdentifierBoundary ==
    /\ \A i \in DOMAIN emitted :
          /\ (emitted[i].Pos < Len(input) /\ isLetter(input[emitted[i].Pos + 1]))
                => /\ emitted[i].Literal =
                         SubSeq(input, emitted[i].Pos + 1,
                                RunEnd(input, emitted[i].Pos,
                                       LowerLetters \cup UpperLetters \cup {"_"} \cup Digits))
                   /\ \A k \in Keywords :
                         (k.lit = emitted[i].Literal) <=> (emitted[i].Type = k.typ)
                   /\ (emitted[i].Type = "IDENTIFIER")
                         <=> (\A k \in Keywords : k.lit # emitted[i].Literal)
          /\ emitted[i].Type \in {"IDENTIFIER"} \cup {k.typ : k \in Keywords}
                => (emitted[i].Pos < Len(input) /\ isLetter(input[emitted[i].Pos + 1]))
    /\ OneToken(<<"C", "o", "n", "t", "r", "a", "c", "t">>, "CONTRACT")
    /\ OneToken(<<"C", "o", "n", "t", "r", "a", "c", "t", "1">>, "IDENTIFIER")
    /\ OneToken(<<"a", "t", "t", "a", "c", "k", "e", "r", "1", "3", "3", "7">>, "IDENTIFIER")

\* C15 witness: "Contract1;" has given the identifier Contract1 and the
\* semicolon after it
C15_Witness ==
    /\ Len(emitted) >= 2
    /\ emitted[1] = [Type |-> "IDENTIFIER", Literal |-> <<"C", "o", "n", "t", "r", "a", "c", "t", "1">>, Pos |-> 0]
    /\ emitted[2].Type = "SEMICOLON"

\* C19: an EOF token has an empty literal and the length of the source as
\* its position.
C19_EofAtEnd ==
    \A i \in DOMAIN emitted :
        emitted[i].Type = "EOF"
            => (emitted[i].Literal = <<>> /\ emitted[i].Pos = Len(input))

\* the EOF of C19, for the sources without a zero byte
EofAtEndWithoutNul ==
    (\A k \in DOMAIN input : input[k] # eof) => C19_EofAtEnd

(***************************************************************************)
(* Properties of the parser                                                *)
(***************************************************************************)
\* the lexer has ended its scan of the source on a token of kind typ
ScannedTo(typ) == closed /\ Last(emitted).Type = typ

\* C3: once the lexer has scanned the source to EOF, ParseFile eventually
\* returns.
C3_ParseFileReturns == ScannedTo("EOF") ~> (ppc = "returned")

\* C10: once the lexer has ended the scan on ILLEGAL, ParseFile eventually
\* returns (stated for the case most favourable to the parser, in which the
\* zero-value token of the closed channel reads as EOF).
C10_IllegalEndsParse ==
    (ScannedTo("ILLEGAL") /\ zeroTyp = "EOF") ~> (ppc = "returned")

\* the kinds of the value-type keywords that start a variable declaration
TypeKeywords == {"ADDRESS", "UINT_256", "BOOL"}

\* this step is a nextToken call of the parser: a receive on the channel
Pulled == delivered' # delivered \/ zeroPulls' # zeroPulls

\* the parser is at the head of ParseFile's loop after its next pull
TopLevel == ppc \in {"init.2", "ParseFile.nextToken"}

\* the kind expectPeek is called with after this step's pull, "none" when the
\* step calls no expectPeek
Expecting ==
    CASE TopLevel /\ currTkn'.Type \in TypeKeywords \cup {"FUNCTION"} -> "IDENTIFIER"
      [] ppc = "fn.expectName" -> "LPAREN"
      [] ppc \in {"fn.afterLparen", "fn.paramNext"} /\ currTkn'.Type # "RPAREN" -> "IDENTIFIER"
      [] OTHER -> "none"

\* the diagnostic of a failed expectation of kind t on the peek token tkn
Diagnostic(t, tkn) == [Pos |-> tkn.Pos, Expected |-> t, Got |-> tkn.Type, Offset |-> tkn.Pos]

\* the Identifier node of the token tkn
NamedBy(tkn) == [node |-> "Identifier", NamePos |-> tkn.Pos, Name |-> tkn.Literal]

\* C11: the declarations of the file hold no entry for a declaration that
\* failed an expectation (a failed declaration yields no node); ParseFile on
\* "uint256 ;" returns one diagnostic, at the semicolon's offset 8, and zero
\* declarations.
C11_ExpectationFailure ==
    /\ \A i \in DOMAIN decls : decls[i].node # "nil"
    /\ (input = <<"u", "i", "n", "t", "2", "5", "6", " ", ";">> /\ ppc = "returned")
          => /\ errors = << Diagnostic("IDENTIFIER",
                                       [Type |-> "SEMICOLON", Literal |-> <<";">>, Pos |-> 8]) >>
             /\ decls = <<>>

\* the part of C11 about the diagnostics and the tokens: a pull that is
\* followed by a failed expectation records one diagnostic at the peek
\* token's position and the parser is back in ParseFile with the tokens it
\* had; a pull followed by a met expectation records none and the parser's
\* next step is the one pull that consumes the expected token
ExpectationDiagnostics ==
    [][(Pulled /\ Expecting # "none")
          => IF peekTkn'.Type # Expecting
             THEN /\ errors' = Append(errors, Diagnostic(Expecting, peekTkn'))
                  /\ ppc' = "ParseFile.nextToken"
             ELSE /\ errors' = errors
                  /\ decls' = decls
                  /\ ppc' \in {"var.expectPeek", "fn.expectName", "fn.expectLparen",
                               "fn.expectParam"}]_vars

\* the tokens are a variable declaration and nothing else: a type keyword,
\* an identifier, tokens other than semicolons, a semicolon, EOF
VarForm ==
    /\ closed
    /\ Len(emitted) >= 4
    /\ emitted[1].Type \in TypeKeywords
    /\ emitted[2].Type = "IDENTIFIER"
    /\ \A i \in 3..(Len(emitted) - 2) : emitted[i].Type # "SEMICOLON"
    /\ emitted[Len(emitted) - 1].Type = "SEMICOLON"
    /\ emitted[Len(emitted)].Type = "EOF"

\* the VariableDeclaration of the type keyword token t and the name token n
VariableDeclarationOf(t, n) ==
    [node |-> "VariableDeclaration",
     Type |-> [node |-> "ElementaryType", ValuePos |-> t.Pos, Kind |-> t, Value |-> t.Literal],
     Name |-> NamedBy(n)]

\* C12: on a source whose tokens are a type keyword, an identifier, any
\* tokens but semicolons and a semicolon, ParseFile returns a File with the
\* one VariableDeclaration of the keyword and the identifier, and no
\* diagnostic.
C12_VariableDeclaration ==
    VarForm ~> /\ ppc = "returned"
               /\ VarForm
               /\ decls = << VariableDeclarationOf(emitted[1], emitted[2]) >>
               /\ errors = <<>>

\* C12 witness: ParseFile has returned the declaration of a source with
\* tokens between the name and the semicolon
C12_Witness ==
    /\ VarForm
    /\ Len(emitted) >= 6
    /\ ppc = "returned"
    /\ Len(decls) = 1
    /\ decls[1].node = "VariableDeclaration"

\* the tokens are a function declaration with k parameters, each a type
\* keyword and a name: function, name, (, the k pairs, ), tokens other than
\* semicolons, a semicolon, then tokens that start no declaration, EOF
FnForm(k) ==
    /\ closed
    /\ Len(emitted) >= 2 * k + 6
    /\ emitted[1].Type = "FUNCTION"
    /\ emitted[2].Type = "IDENTIFIER"
    /\ emitted[3].Type = "LPAREN"
    /\ \A j \in 1..k : /\ emitted[2 + 2 * j].Type \in TypeKeywords
                       /\ emitted[3 + 2 * j].Type = "IDENTIFIER"
    /\ emitted[2 * k + 4].Type = "RPAREN"
    /\ \E m \in (2 * k + 5)..(Len(emitted) - 1) :
          /\ emitted[m].Type = "SEMICOLON"
          /\ \A i \in (2 * k + 5)..(m - 1) : emitted[i].Type # "SEMICOLON"
          /\ \A i \in (m + 1)..(Len(emitted) - 1) :
                emitted[i].Type \notin TypeKeywords \cup {"FUNCTION"}
    /\ emitted[Len(emitted)].Type = "EOF"

\* the FunctionDeclaration of the tokens of FnForm(k)
FunctionDeclarationOf(k) ==
    [node |-> "FunctionDeclaration",
     Name |-> NamedBy(emitted[2]),
     Type |-> [Func |-> emitted[1].Pos,
               Params |-> [node |-> "ParamList",
                           Opening |-> emitted[3].Pos,
                           Closing |-> emitted[2 * k + 4].Pos,
                           List |-> [j \in 1..k |->
                                       [node |-> "Param",
                                        Name |-> NamedBy(emitted[3 + 2 * j])]]]]]

\* the most parameters of a function in the parser's sources
MaxParams == 2

\* C13: on a source whose tokens are function, a name, a parenthesised list
\* of k pairs of a type keyword and a name, then any tokens up to a
\* semicolon, ParseFile returns a File with the one FunctionDeclaration of
\* that name, its k parameters named in source order, Opening and Closing
\* the offsets of the parentheses, and no diagnostic.
C13_FunctionDeclaration ==
    (\E k \in 1..MaxParams : FnForm(k))
        ~> \E k \in 1..MaxParams :
              /\ ppc = "returned"
              /\ FnForm(k)
              /\ decls = << FunctionDeclarationOf(k) >>
              /\ errors = <<>>

\* C13 witness: ParseFile has returned the function of the source
\* "function deposit(uint256 amount) public { balances[msg.sender] += amount; }"
C13_Witness ==
    /\ FnForm(1)
    /\ ppc = "returned"
    /\ Len(decls) = 1
    /\ decls[1].Name.Name = <<"d", "e", "p", "o", "s", "i", "t">>
    /\ Len(decls[1].Type.Params.List) = 1
    /\ decls[1].Type.Params.List[1].Name.Name = <<"a", "m", "o", "u", "n", "t">>

\* C16: a pull at the head of ParseFile's loop that makes current a token
\* which is neither a type keyword nor function (nor EOF) adds no
\* declaration and no diagnostic and leaves the parser at ParseFile's
\* nextToken, which makes the peek token current with one pull; a pull
\* records a diagnostic exactly when the expectation that follows it fails,
\* and then appends that one diagnostic to the list.
C16_SilentSkip ==
    [][Pulled =>
         /\ (TopLevel /\ currTkn'.Type \notin TypeKeywords \cup {"FUNCTION", "EOF"})
               => /\ decls' = decls
                  /\ errors' = errors
                  /\ ppc' = "ParseFile.nextToken"
         /\ ppc = "ParseFile.nextToken"
               => /\ currTkn' = peekTkn
                  /\ Len(delivered') <= Len(delivered) + 1
         /\ IF Expecting # "none" /\ peekTkn'.Type # Expecting
            THEN errors' = Append(errors, Diagnostic(Expecting, peekTkn'))
            ELSE errors' = errors]_vars

\* C16 witness: ParseFile has returned after it skipped an identifier and
\* two more tokens at the top level and then recorded one diagnostic
C16_Witness ==
    /\ ppc = "returned"
    /\ Len(errors) = 1
    /\ Len(delivered) >= 4
    /\ delivered[1].Type = "IDENTIFIER"
    /\ errors[1].Pos > 0

\* the Identifier and ElementaryType nodes of the declaration d
NodesOf(d) ==
    IF d.node = "VariableDeclaration"
    THEN {d.Type} \cup (IF d.Name = Nil THEN {} ELSE {d.Name})
    ELSE IF d.node = "FunctionDeclaration"
    THEN (IF d.Name = Nil THEN {} ELSE {d.Name})
            \cup (IF d.Type.Params = Nil THEN {}
                  ELSE {d.Type.Params.List[j].Name : j \in DOMAIN d.Type.Params.List})
    ELSE {}

\* the nodes of the file under construction
AllNodes == NodesOf(decl) \cup UNION {NodesOf(decls[i]) : i \in DOMAIN decls}

\* the text of an Identifier or ElementaryType node
TextOf(x) == IF x.node = "Identifier" THEN x.Name ELSE x.Value

\* C17: for every Identifier and ElementaryType node of the file, End() is
\* Start() plus the length of the node's text, it is at most the length of
\* the source, and the source from Start() up to End() is the node's text.
C17_ExactRanges ==
    \A x \in AllNodes :
        /\ NodeStart(x) >= 0
        /\ NodeEnd(x) = NodeStart(x) + Len(TextOf(x))
        /\ NodeEnd(x) <= Len(input)
        /\ SubSeq(input, NodeStart(x) + 1, NodeEnd(x)) = TextOf(x)

\* C17 witness: ParseFile has returned one VariableDeclaration that does not
\* start at offset 0
C17_Witness ==
    /\ ppc = "returned"
    /\ Len(decls) = 1
    /\ decls[1].node = "VariableDeclaration"
    /\ NodeStart(decls[1].Type) > 0
    /\ NodeStart(decls[1].Name) > NodeEnd(decls[1].Type)

\* the source "function f() uint256 x ;"
FunctionThenVariable == <<"f", "u", "n", "c", "t", "i", "o", "n", " ", "f", "(", ")", " ", "u", "i", "n", "t", "2", "5", "6", " ", "x", " ", ";">>

\* C18: a pull that adds a node to the file's declarations leaves a
\* SEMICOLON as the current token and records no diagnostic; a pull of the
\* skip loops that does not make a semicolon current adds no declaration and
\* no diagnostic and stays in the loop, braces included; so the function of
\* "function f() uint256 x ;" takes the variable's tokens up to the semicolon
\* and the file has the function only.
C18_SkipToSemicolon ==
    /\ [][Pulled =>
            /\ (Len(decls') > Len(decls) /\ decls'[Len(decls')].node # "nil")
                  => (currTkn'.Type = "SEMICOLON" /\ errors' = errors)
            /\ (ppc \in {"var.skip", "fn.skip"} /\ currTkn'.Type # "SEMICOLON")
                  => (ppc' = ppc /\ decls' = decls /\ errors' = errors /\ decl' = decl)
            /\ (ppc \in {"var.skip", "fn.skip"} /\ currTkn'.Type = "SEMICOLON")
                  => decls' = Append(decls, decl)]_vars
    /\ []((input = FunctionThenVariable /\ ppc = "returned")
            => (Len(decls) = 1 /\ decls[1].node = "FunctionDeclaration" /\ errors = <<>>))

\* C18 witness: ParseFile has returned on "function f() uint256 x ;" with the
\* function as its only declaration, after it pulled the type keyword
C18_Witness ==
    /\ input = FunctionThenVariable
    /\ ppc = "returned"
    /\ Len(decls) = 1
    /\ \E i \in DOMAIN delivered : delivered[i].Type = "UINT_256"

\* C20: after init and after every nextToken, the current token is a token
\* the lexer pushed, the peek token is the token pushed right after it, and
\* the parser has pulled that token and none beyond it; only at the terminal
\* token, which no token follows, the peek token is the zero value of the
\* closed channel.
C20_OneTokenLookahead ==
    ppc \notin {"init.1", "init.2"} =>
        /\ emitted = delivered \o tokens
        /\ \E i \in DOMAIN delivered :
              /\ currTkn = delivered[i]
              /\ \/ /\ i = Len(delivered) - 1
                    /\ peekTkn = delivered[i + 1]
                 \/ /\ i = Len(delivered)
                    /\ IsTerminal(currTkn)
                    /\ closed /\ tokens = <<>>
                    /\ peekTkn = ZeroToken(zeroTyp)

\* the part of C20 that holds in every state: the tokens pulled are the
\* tokens pushed, in order and without a gap; while the peek token is a
\* token of the channel, it is the last token pulled and the current token
\* is the one pulled before it; when the peek token is the zero value, the
\* channel is closed and drained
LookaheadUntilDrained ==
    ppc \notin {"init.1", "init.2"} =>
        /\ emitted = delivered \o tokens
        /\ delivered # <<>>
        /\ IF peekTkn # ZeroToken(zeroTyp)
           THEN /\ Len(delivered) >= 2
                /\ peekTkn = delivered[Len(delivered)]
                /\ currTkn = delivered[Len(delivered) - 1]
           ELSE /\ closed
                /\ tokens = <<>>
                /\ currTkn \in {delivered[Len(delivered)], ZeroToken(zeroTyp)}

====
